---- MODULE Spec2Model ----
(***************************************************************************)
(* A model of the slope-aspect-map pipeline: the risk classifier           *)
(* (src/src/classify.py), the slope engine (src/src/slope.py), the         *)
(* downsampling step of the overlay renderer (src/src/visualize.py), the   *)
(* coordinate probe (src/diagnose_alignment.py) and the cell size          *)
(* conversion (src/src/dem.py).                                            *)
(*                                                                         *)
(* Every component is a pure function of its arguments; each has its own   *)
(* specification (SpecClassify, SpecColor, SpecSlope, SpecResize,          *)
(* SpecCoord, SpecDem) whose Init draws the arguments from bounded sets    *)
(* and whose actions are the calls.  `returned` holds the names of the     *)
(* calls that have returned and `raised` those that ended in an exception. *)
(***************************************************************************)
EXTENDS Integers, Sequences, FiniteSets, TLC

VARIABLES
    returned,    \* names of the functions that have returned
    raised,      \* names of the functions that raised an exception
    slopes,      \* classify.py: the argument of classify_slope / slope_to_rgba
    categories,  \* classify.py: what classify_slope returned
    rgba,        \* classify.py: what slope_to_rgba returned
    category,    \* classify.py: the argument of get_risk_color
    risk_color,  \* classify.py: what get_risk_color returned
    cell,        \* the cell whose label was looked up (0: a label the caller typed)
    elevation,   \* slope.py: the elevation argument of calculate_slope
    cell_size,   \* slope.py: the cell_size argument of calculate_slope
    slope_degrees,  \* slope.py: what calculate_slope returned
    height,      \* visualize.py, diagnose_alignment.py: rows of the grid
    width,       \* visualize.py, diagnose_alignment.py: columns of the grid
    new_height,  \* visualize.py: create_slope_map.new_height (0 before it is set)
    new_width,   \* visualize.py: create_slope_map.new_width (0 before it is set)
    pc,          \* the component that is run; in diagnose_alignment.py, where main() stands
    bounds,      \* diagnose_alignment.py: dem.bounds = (west, south, east, north)
    steep_row,   \* diagnose_alignment.py: main.steep_row
    steep_col,   \* diagnose_alignment.py: main.steep_col
    steep_lat,   \* diagnose_alignment.py: main.steep_lat
    steep_lon,   \* diagnose_alignment.py: main.steep_lon
    lat,         \* diagnose_alignment.py: get_slope_at_coord.lat
    lon,         \* diagnose_alignment.py: get_slope_at_coord.lon
    row,         \* diagnose_alignment.py: get_slope_at_coord.row
    col,         \* diagnose_alignment.py: get_slope_at_coord.col
    resolution_degrees,  \* dem.py: the resolution_degrees argument of get_cell_size_meters
    latitude,            \* dem.py: the latitude argument, in whole degrees
    cell_size_meters     \* dem.py: what get_cell_size_meters returned

classifyVars == <<slopes, categories, rgba>>
slopeVars == <<elevation, cell_size, slope_degrees>>
resizeVars == <<height, width, new_height, new_width>>
coordVars == <<pc, bounds, steep_row, steep_col, steep_lat, steep_lon, lat, lon, row, col>>
colorVars == <<category, risk_color, cell>>
demVars == <<resolution_degrees, latitude, cell_size_meters>>
vars == <<returned, raised, slopes, categories, rgba, elevation, cell_size, slope_degrees,
          height, width, new_height, new_width,
          pc, bounds, steep_row, steep_col, steep_lat, steep_lon, lat, lon, row, col,
          category, risk_color, cell, resolution_degrees, latitude, cell_size_meters>>

(***************************************************************************)
(* Numbers.  A float64 cell is either not-a-number or a value; slope       *)
(* values are kept in units of 1/PerDegree of a degree.  Every comparison  *)
(* with a not-a-number operand is false, as in IEEE 754.                   *)
(***************************************************************************)
PerDegree == 100

NaN == [nan |-> TRUE, v |-> 0]
Num(x) == [nan |-> FALSE, v |-> x]

\* slope < deg, for a slope in 1/PerDegree degrees and a threshold in degrees
Lt(s, deg) == ~s.nan /\ s.v < deg * PerDegree
\* slope >= deg
Ge(s, deg) == ~s.nan /\ s.v >= deg * PerDegree

(***************************************************************************)
(* classify.py                                                             *)
(***************************************************************************)
RiskLabels == {"low", "moderate", "high", "very_high", "extreme"}

RISK_CATEGORIES ==
    [low       |-> [min |-> 0,  max |-> 25, color |-> <<0, 255, 0, 150>>],
     moderate  |-> [min |-> 25, max |-> 30, color |-> <<255, 255, 0, 150>>],
     high      |-> [min |-> 30, max |-> 45, color |-> <<255, 165, 0, 150>>],
     very_high |-> [min |-> 45, max |-> 60, color |-> <<255, 0, 0, 150>>],
     extreme   |-> [min |-> 60, max |-> 90, color |-> <<128, 0, 128, 150>>]]

\* the if/elif chain of classify_slope, for one element of flat_slopes
ClassifyOneLe(slope) ==
    IF ~slope.nan /\ slope.v <= 25 * PerDegree THEN "low"
    ELSE IF Lt(slope, 30) THEN "moderate"
    ELSE IF Lt(slope, 45) THEN "high"
    ELSE IF Lt(slope, 60) THEN "very_high"
    ELSE "extreme"

ClassifyOneOrder(slope) ==
    IF Lt(slope, 25) THEN "low"
    ELSE IF Lt(slope, 45) THEN "high"
    ELSE IF Lt(slope, 30) THEN "moderate"
    ELSE IF Lt(slope, 60) THEN "very_high"
    ELSE "extreme"

ClassifyOne(slope) ==
    IF Lt(slope, 25) THEN "low"
    ELSE IF Lt(slope, 30) THEN "moderate"
    ELSE IF Lt(slope, 45) THEN "high"
    ELSE IF Lt(slope, 60) THEN "very_high"
    ELSE "extreme"

\* classify_slope: flatten, classify each element in order, reshape for a
\* 2D argument (a list of the same length for a 1D one)
classify_slope_flat(arr) ==
    [shape |-> <<Len(arr.data)>>,
     data  |-> [i \in 1..Len(arr.data) |-> ClassifyOne(arr.data[i])]]

classify_slope(arr) ==
    [shape |-> arr.shape,
     data  |-> [i \in 1..Len(arr.data) |-> ClassifyOne(arr.data[i])]]

\* the five boolean masks of slope_to_rgba, for one cell
LowMaskNotGe(s) == ~Ge(s, 25)

LowMask(s) == Lt(s, 25)
ModerateMask(s) == Ge(s, 25) /\ Lt(s, 30)
HighMask(s) == Ge(s, 30) /\ Lt(s, 45)
VeryHighMask(s) == Ge(s, 45) /\ Lt(s, 60)
ExtremeMask(s) == Ge(s, 60)

\* rgba[mask] = color, for one cell
Paint(pixel, mask, color) == IF mask THEN color ELSE pixel

\* np.zeros, then the five masked assignments in the order of the source
PixelOf(s) ==
    LET p0 == <<0, 0, 0, 0>>
        p1 == Paint(p0, LowMask(s), RISK_CATEGORIES["low"].color)
        p2 == Paint(p1, ModerateMask(s), RISK_CATEGORIES["moderate"].color)
        p3 == Paint(p2, HighMask(s), RISK_CATEGORIES["high"].color)
        p4 == Paint(p3, VeryHighMask(s), RISK_CATEGORIES["very_high"].color)
    IN  Paint(p4, ExtremeMask(s), RISK_CATEGORIES["extreme"].color)

\* slope_to_rgba on a 2D array: an image of shape (height, width, 4)
slope_to_rgba(arr) ==
    [shape |-> <<arr.shape[1], arr.shape[2], 4>>,
     data  |-> [i \in 1..Len(arr.data) |-> PixelOf(arr.data[i])]]

\* the arguments of the classifier: one-element arrays over a dense range of
\* slopes, and 1D and 2D arrays filled from a list of values at and next to
\* the thresholds
MaxDeg == 91
BelowZeroDeg == 1
MaxLen == 2
MaxRows == 2
MaxCols == 2
MaxStride == 2

DenseSlopes == {Num(x) : x \in (0 - BelowZeroDeg * PerDegree)..(MaxDeg * PerDegree)} \cup {NaN}

SampleSlopes ==
    <<NaN, Num(0 - 1), Num(0),
      Num(25 * PerDegree - 1), Num(25 * PerDegree), Num(30 * PerDegree - 1), Num(30 * PerDegree),
      Num(45 * PerDegree - 1), Num(45 * PerDegree), Num(60 * PerDegree - 1), Num(60 * PerDegree),
      Num(90 * PerDegree), Num(90 * PerDegree + 1)>>

Walk(n, start, stride) ==
    [i \in 1..n |-> SampleSlopes[((start - 1 + (i - 1) * stride) % Len(SampleSlopes)) + 1]]

Shapes == {<<n>> : n \in 1..MaxLen} \cup {<<h, w>> : h \in 1..MaxRows, w \in 1..MaxCols}

Size(shape) == IF Len(shape) = 1 THEN shape[1] ELSE shape[1] * shape[2]

InputSlopes ==
    {[shape |-> <<1>>, data |-> <<s>>] : s \in DenseSlopes}
    \cup {[shape |-> sh, data |-> Walk(Size(sh), st, sd)] :
            sh \in Shapes, st \in 1..Len(SampleSlopes), sd \in 0..MaxStride}

NoResult == [shape |-> <<>>, data |-> <<>>]

\* the variables of the slope engine while another component is run
IdleSlope ==
    /\ elevation = NoResult
    /\ cell_size = 1
    /\ slope_degrees = NoResult

\* the variables of the renderer while another component is run
IdleResize ==
    /\ height = 1
    /\ width = 1
    /\ new_height = 0
    /\ new_width = 0

\* the variables of the coordinate probe while another component is run
IdleCoord ==
    /\ bounds = <<0, 0, 0, 0>>
    /\ steep_row = 0
    /\ steep_col = 0
    /\ steep_lat = [n |-> 0, d |-> 1]
    /\ steep_lon = [n |-> 0, d |-> 1]
    /\ lat = [n |-> 0, d |-> 1]
    /\ lon = [n |-> 0, d |-> 1]
    /\ row = 0
    /\ col = 0

\* the variables of the colour lookup before get_risk_color is called
IdleColor ==
    /\ category = ""
    /\ risk_color = <<>>
    /\ cell = 0

\* the variables of the cell size conversion while another component is run
IdleDem ==
    /\ resolution_degrees = [n |-> 0, d |-> 1]
    /\ latitude = 0
    /\ cell_size_meters = [n |-> 0, d |-> 1]

InitClassify ==
    /\ returned = {}
    /\ raised = {}
    /\ pc = "classifier"
    /\ slopes \in InputSlopes
    /\ categories = NoResult
    /\ rgba = NoResult
    /\ IdleSlope
    /\ IdleResize
    /\ IdleCoord
    /\ IdleColor
    /\ IdleDem

ClassifySlope ==
    /\ pc \in {"classifier", "color_lookup"}
    /\ "classify_slope" \notin returned
    /\ categories' = classify_slope(slopes)
    /\ returned' = returned \cup {"classify_slope"}
    /\ UNCHANGED <<raised, slopes, rgba>>
    /\ UNCHANGED slopeVars
    /\ UNCHANGED resizeVars
    /\ UNCHANGED coordVars
    /\ UNCHANGED colorVars
    /\ UNCHANGED demVars

\* height, width = slopes.shape raises ValueError for a 1D array
SlopeToRgba ==
    /\ pc \in {"classifier", "color_lookup"}
    /\ "slope_to_rgba" \notin returned \cup raised
    /\ IF Len(slopes.shape) = 2
       THEN /\ rgba' = slope_to_rgba(slopes)
            /\ returned' = returned \cup {"slope_to_rgba"}
            /\ UNCHANGED raised
       ELSE /\ raised' = raised \cup {"slope_to_rgba"}
            /\ UNCHANGED <<returned, rgba>>
    /\ UNCHANGED <<slopes, categories>>
    /\ UNCHANGED slopeVars
    /\ UNCHANGED resizeVars
    /\ UNCHANGED coordVars
    /\ UNCHANGED colorVars
    /\ UNCHANGED demVars

NextClassify == ClassifySlope \/ SlopeToRgba

SpecClassify == InitClassify /\ [][NextClassify]_vars

(***************************************************************************)
(* classify.py, get_risk_color.  A call ends in a value or in KeyError.    *)
(***************************************************************************)
KeyError == [raised |-> TRUE, value |-> <<>>]
Value(x) == [raised |-> FALSE, value |-> x]

get_risk_color_default(label) ==
    IF label \in DOMAIN RISK_CATEGORIES
    THEN Value(RISK_CATEGORIES[label].color)
    ELSE Value(<<0, 0, 0, 0>>)

get_risk_color_low_first(label) ==
    IF label \in DOMAIN RISK_CATEGORIES
    THEN Value(RISK_CATEGORIES["low"].color)
    ELSE KeyError

\* RISK_CATEGORIES[category]['color']: the subscript raises KeyError for a key
\* the dict does not hold
get_risk_color(label) ==
    IF label \in DOMAIN RISK_CATEGORIES
    THEN Value(RISK_CATEGORIES[label].color)
    ELSE KeyError

\* labels a caller may type: the five of the table and some it does not hold
UnknownLabels == {"", "none", "undefined", "LOW", "very high", "no_data"}
ArgLabels == RiskLabels \cup UnknownLabels

\* the arrays of the colour lookup: the 1D and 2D arrays of sample values
ColorSlopes ==
    {[shape |-> sh, data |-> Walk(Size(sh), st, sd)] :
        sh \in Shapes, st \in 1..Len(SampleSlopes), sd \in 0..MaxStride}

InitColor ==
    /\ returned = {}
    /\ raised = {}
    /\ pc = "color_lookup"
    /\ slopes \in ColorSlopes
    /\ categories = NoResult
    /\ rgba = NoResult
    /\ IdleColor
    /\ IdleSlope
    /\ IdleResize
    /\ IdleCoord
    /\ IdleDem

\* get_risk_color(label): what the call leaves behind
ColorCall(label, i) ==
    /\ category' = label
    /\ cell' = i
    /\ IF get_risk_color(label).raised
       THEN /\ raised' = raised \cup {"get_risk_color"}
            /\ UNCHANGED <<returned, risk_color>>
       ELSE /\ risk_color' = get_risk_color(label).value
            /\ returned' = returned \cup {"get_risk_color"}
            /\ UNCHANGED raised

\* get_risk_color on a label the caller typed
GetRiskColor ==
    /\ pc = "color_lookup"
    /\ "get_risk_color" \notin returned \cup raised
    /\ \E label \in ArgLabels : ColorCall(label, 0)
    /\ UNCHANGED classifyVars
    /\ UNCHANGED slopeVars
    /\ UNCHANGED resizeVars
    /\ UNCHANGED coordVars
    /\ UNCHANGED demVars

\* get_risk_color on the label classify_slope gave one cell
GetCellColor ==
    /\ pc = "color_lookup"
    /\ "get_risk_color" \notin returned \cup raised
    /\ "classify_slope" \in returned
    /\ \E i \in 1..Len(categories.data) : ColorCall(categories.data[i], i)
    /\ UNCHANGED classifyVars
    /\ UNCHANGED slopeVars
    /\ UNCHANGED resizeVars
    /\ UNCHANGED coordVars
    /\ UNCHANGED demVars

NextColor == ClassifySlope \/ SlopeToRgba \/ GetRiskColor \/ GetCellColor

SpecColor == InitColor /\ [][NextColor]_vars

(***************************************************************************)
(* slope.py.  Elevations are whole metres or not-a-number.  A gradient is  *)
(* the exact quotient n/d of an elevation difference and a spacing; any    *)
(* arithmetic with a not-a-number operand gives not-a-number.              *)
(***************************************************************************)
RNaN == [nan |-> TRUE, n |-> 0, d |-> 1]
Rat(num, den) == [nan |-> FALSE, n |-> num, d |-> den]

\* element (r, c) of a 2D array, rows and columns counted from 1
At(arr, r, c) == arr.data[(r - 1) * arr.shape[2] + c]

\* (f1 - f0) / spacing
Diff(f1, f0, spacing) ==
    IF f1.nan \/ f0.nan THEN RNaN ELSE Rat(f1.v - f0.v, spacing)

\* np.gradient refuses an axis with fewer than edge_order + 1 = 2 elements
TooSmallEdgeOrder2(n) == n < 3

TooSmall(n) == n < 2

\* np.gradient(f, h) along axis 0 at (r, c): one-sided differences at the
\* first and the last row, the central difference elsewhere
GradientAxis0Unhalved(f, h, r, c) ==
    LET rows == f.shape[1]
    IN  IF r = 1 THEN Diff(At(f, 2, c), At(f, 1, c), h)
        ELSE IF r = rows THEN Diff(At(f, rows, c), At(f, rows - 1, c), h)
        ELSE Diff(At(f, r + 1, c), At(f, r - 1, c), h)

GradientAxis0(f, h, r, c) ==
    LET rows == f.shape[1]
    IN  IF r = 1 THEN Diff(At(f, 2, c), At(f, 1, c), h)
        ELSE IF r = rows THEN Diff(At(f, rows, c), At(f, rows - 1, c), h)
        ELSE Diff(At(f, r + 1, c), At(f, r - 1, c), 2 * h)

\* the same along axis 1
GradientAxis1(f, h, r, c) ==
    LET cols == f.shape[2]
    IN  IF c = 1 THEN Diff(At(f, r, 2), At(f, r, 1), h)
        ELSE IF c = cols THEN Diff(At(f, r, cols), At(f, r, cols - 1), h)
        ELSE Diff(At(f, r, c + 1), At(f, r, c - 1), 2 * h)

\* x**2
SquareAsCube(x) == IF x.nan THEN RNaN ELSE Rat(x.n * x.n * x.n, x.d * x.d * x.d)

Square(x) == IF x.nan THEN RNaN ELSE Rat(x.n * x.n, x.d * x.d)

\* x + y
AddLeftOnly(x, y) == IF x.nan THEN RNaN ELSE Rat(x.n * y.d + y.n * x.d, x.d * y.d)

Add(x, y) ==
    IF x.nan \/ y.nan THEN RNaN ELSE Rat(x.n * y.d + y.n * x.d, x.d * y.d)

\* np.degrees(np.arctan(np.sqrt(x))): the angle in [0, 90) degrees whose
\* squared tangent is x; it is kept as that squared tangent tan2n / tan2d
DegreesArctanSqrt(x) ==
    [nan |-> x.nan, tan2n |-> x.n, tan2d |-> x.d]

\* the body of calculate_slope for one cell
SlopeAt(f, h, r, c) ==
    LET dz_dy == GradientAxis0(f, h, r, c)
        dz_dx == GradientAxis1(f, h, r, c)
    IN  DegreesArctanSqrt(Add(Square(dz_dx), Square(dz_dy)))

calculate_slope(f, h) ==
    [shape |-> f.shape,
     data  |-> [i \in 1..Len(f.data) |->
                  SlopeAt(f, h, ((i - 1) \div f.shape[2]) + 1, ((i - 1) % f.shape[2]) + 1)]]

\* the arguments of the slope engine: a plane a*row + b*col over BaseElev
\* with up to MaxDisturbed cells all replaced by no-data or all raised by
\* SpikeHeight
MaxElevRows == 3
MaxElevCols == 3
MaxCoef == 2
MaxDisturbed == 1
MaxCellSize == 2
BaseElev == 10
SpikeHeight == 3

Disturbances(n) ==
    UNION {[D -> {kind}] :
             D \in {S \in SUBSET (1..n) : Cardinality(S) <= MaxDisturbed},
             kind \in {"nan", "spike"}}

ElevationGrid(h, w, a, b, dist) ==
    [shape |-> <<h, w>>,
     data  |-> [i \in 1..(h * w) |->
                  LET z == BaseElev + a * ((i - 1) \div w) + b * ((i - 1) % w)
                  IN  IF i \in DOMAIN dist
                      THEN IF dist[i] = "nan" THEN NaN ELSE Num(z + SpikeHeight)
                      ELSE Num(z)]]

\* the variables of the classifier while another component is run
IdleClassify ==
    /\ slopes = NoResult
    /\ categories = NoResult
    /\ rgba = NoResult

InitSlope ==
    /\ returned = {}
    /\ raised = {}
    /\ pc = "slope_engine"
    /\ \E h \in 0..MaxElevRows, w \in 0..MaxElevCols,
          a \in (0 - MaxCoef)..MaxCoef, b \in (0 - MaxCoef)..MaxCoef :
          \E dist \in Disturbances(h * w) :
              elevation = ElevationGrid(h, w, a, b, dist)
    /\ cell_size \in 1..MaxCellSize
    /\ slope_degrees = NoResult
    /\ IdleClassify
    /\ IdleResize
    /\ IdleCoord
    /\ IdleColor
    /\ IdleDem

\* np.gradient raises ValueError when an axis is too short; otherwise the
\* slope grid is returned
CalculateSlope ==
    /\ pc = "slope_engine"
    /\ "calculate_slope" \notin returned \cup raised
    /\ IF TooSmall(elevation.shape[1]) \/ TooSmall(elevation.shape[2])
       THEN /\ raised' = raised \cup {"calculate_slope"}
            /\ UNCHANGED <<returned, slope_degrees>>
       ELSE /\ slope_degrees' = calculate_slope(elevation, cell_size)
            /\ returned' = returned \cup {"calculate_slope"}
            /\ UNCHANGED raised
    /\ UNCHANGED <<elevation, cell_size>>
    /\ UNCHANGED classifyVars
    /\ UNCHANGED resizeVars
    /\ UNCHANGED coordVars
    /\ UNCHANGED colorVars
    /\ UNCHANGED demVars

NextSlope == CalculateSlope

SpecSlope == InitSlope /\ [][NextSlope]_vars

(***************************************************************************)
(* float64 arithmetic of the index computations.  Frac(a, b) stands for    *)
(* the float64 nearest to a/b (round to nearest, ties to even), which is   *)
(* what a / b evaluates to for integers a and b.  With t = 52 - e and      *)
(* 2^e <= a/b < 2^(e+1), its 53-bit significand M satisfies                *)
(* M * b = a * 2^t + rho with |rho| <= b/2; rho is computed by modular     *)
(* arithmetic, so that nothing exceeds 32 bits for operands below 2^14.    *)
(***************************************************************************)
Frac(a, b) == [n |-> a, d |-> b]

RECURSIVE ExpUp(_, _), ExpDown(_, _), PowMod2(_, _), Pow2(_)

Pow2(k) == IF k <= 0 THEN 1 ELSE 2 * Pow2(k - 1)

\* for a >= b > 0: the e >= 0 with 2^e * b <= a < 2^(e+1) * b
ExpUp(a, b) == IF a < 2 * b THEN 0 ELSE 1 + ExpUp(a, 2 * b)

\* for 0 < a < b: the e < 0 with 2^e * b <= a < 2^(e+1) * b
ExpDown(a, b) == IF a >= b THEN 0 ELSE ExpDown(2 * a, b) - 1

\* floor(log2(a / b)) for a, b > 0
Exp2Floor(a, b) == IF a >= b THEN ExpUp(a, b) ELSE ExpDown(a, b)

\* 2^t mod m
PowMod2(t, m) == IF t = 0 THEN 1 % m ELSE (2 * PowMod2(t - 1, m)) % m

\* rho: the rounding error of the quotient a / b, scaled by b * 2^t
\* (negative: the float64 lies below a/b)
RoundingError(a, b) ==
    LET t == 52 - Exp2Floor(a, b)
        r == ((a % b) * PowMod2(t, b)) % b
        r2 == ((a % (2 * b)) * PowMod2(t, 2 * b)) % (2 * b)
    IN  IF 2 * r < b THEN 0 - r
        ELSE IF 2 * r > b THEN b - r
        ELSE IF r2 >= b THEN b - r ELSE 0 - r

IsPow2(q) == q = Pow2(Exp2Floor(q, 1))

\* int(x * c) for x = Frac(a, b), a >= 0, c >= 0: the product is rounded to
\* float64 and then truncated.  When a*c/b is not an integer the rounding
\* cannot cross an integer.  When it is the integer q, the product lands
\* below q exactly if the quotient was rounded down by more than half the
\* spacing of the float64 numbers below q.
TruncMulDivExact(a, b, c) == (a * c) \div b

TruncMulDiv(a, b, c) ==
    IF a = 0 \/ c = 0 THEN 0
    ELSE LET q == (a * c) \div b
         IN  IF (a * c) % b # 0 THEN q
             ELSE LET rho == RoundingError(a, b)
                      eq == Exp2Floor(q, 1) - (IF IsPow2(q) THEN 1 ELSE 0)
                      dd == eq - Exp2Floor(a, b)
                  IN  IF rho >= 0 THEN q
                      ELSE IF 2 * (0 - rho) * c * Pow2(0 - dd) <= b * Pow2(dd)
                           THEN q
                           ELSE q - 1

\* int(x * k), x a float64 quotient and k a non-negative integer
IntOfProductRounded(x, k) == (2 * x.n * k + x.d) \div (2 * x.d)

IntOfProduct(x, k) == TruncMulDiv(x.n, x.d, k)

(***************************************************************************)
(* visualize.py: the downsampling step of create_slope_map                 *)
(***************************************************************************)
max_dimension == 1500

Max(a, b) == IF a >= b THEN a ELSE b
Min(a, b) == IF a <= b THEN a ELSE b

\* scale = max_dimension / max(height, width)
ScaleOf(h, w) == Frac(max_dimension, Max(h, w))

\* the shapes of the RGBA grid: a longer side that is small, or around
\* max_dimension, and a shorter side that is small, close to the longer one,
\* or a simple fraction of it
LowDims == 20
NearBelow == 3
Above == 120
MaxShort == 30
MaxDiv == 6

LongSides == (1..LowDims) \cup ((max_dimension - NearBelow)..(max_dimension + Above))

ShortSides(long) ==
    {k \in 1..MaxShort : k <= long}
    \cup {long - k : k \in 0..Min(MaxShort, long - 1)}
    \cup UNION {{(long \div dv) * j : j \in 1..(dv - 1)} :
                   dv \in {x \in 2..MaxDiv : long % x = 0}}

InitResize ==
    /\ returned = {}
    /\ raised = {}
    /\ pc = "renderer"
    /\ \E long \in LongSides : \E short \in ShortSides(long) :
          \/ height = long /\ width = short
          \/ height = short /\ width = long
    /\ new_height = 0
    /\ new_width = 0
    /\ IdleClassify
    /\ IdleSlope
    /\ IdleCoord
    /\ IdleColor
    /\ IdleDem

\* lines 112-120 of create_slope_map.  Image.resize refuses a size with a
\* side below 1 (ValueError: height and width must be > 0).
CreateSlopeMap ==
    /\ pc = "renderer"
    /\ "create_slope_map" \notin returned \cup raised
    /\ IF Max(height, width) > max_dimension
       THEN LET scale == ScaleOf(height, width)
                nh == IntOfProduct(scale, height)
                nw == IntOfProduct(scale, width)
            IN  /\ new_height' = nh
                /\ new_width' = nw
                /\ IF nh < 1 \/ nw < 1
                   THEN raised' = raised \cup {"create_slope_map"} /\ UNCHANGED returned
                   ELSE returned' = returned \cup {"create_slope_map"} /\ UNCHANGED raised
       ELSE /\ returned' = returned \cup {"create_slope_map"}
            /\ UNCHANGED <<raised, new_height, new_width>>
    /\ UNCHANGED <<height, width>>
    /\ UNCHANGED classifyVars
    /\ UNCHANGED slopeVars
    /\ UNCHANGED coordVars
    /\ UNCHANGED colorVars
    /\ UNCHANGED demVars

NextResize == CreateSlopeMap

SpecResize == InitResize /\ [][NextResize]_vars

(***************************************************************************)
(* diagnose_alignment.py.  A coordinate is a float64 quotient Frac(n, d).  *)
(* The bounds are drawn with west = 0, north = 0 and extents that are      *)
(* powers of two: adding or subtracting 0 and scaling by a power of two    *)
(* are exact in float64, so the operators below are exact for them and     *)
(* the only roundings are those of index / size and of fraction * size,    *)
(* which Frac and IntOfProduct carry out.                                  *)
(***************************************************************************)
\* x * p, p a power of two
FScale(x, p) == Frac(x.n * p, x.d)
\* x / p, p a power of two
FDivide(x, p) == Frac(x.n, x.d * p)
\* k + x, k = 0
FAddTo(k, x) == Frac(k * x.d + x.n, x.d)
\* k - x, k = 0
FSubFrom(k, x) == Frac(k * x.d - x.n, x.d)
\* x - k, k = 0
FSub(x, k) == Frac(x.n - k * x.d, x.d)

West(b) == b[1]
South(b) == b[2]
East(b) == b[3]
North(b) == b[4]

\* max(0, min(size - 1, index))
Clamp(index, size) == Max(0, Min(size - 1, index))

\* get_slope_at_coord: the (row, col) of a coordinate
ProbeCol(w, b, x) ==
    LET x_frac == FDivide(FSub(x, West(b)), East(b) - West(b))
    IN  Clamp(IntOfProduct(x_frac, w), w)

ProbeRow(h, b, y) ==
    LET y_frac == FDivide(FSubFrom(North(b), y), North(b) - South(b))
    IN  Clamp(IntOfProduct(y_frac, h), h)

\* main: steep_lon = west + (steep_col / width) * (east - west)
IndexToLon(c, w, b) == FAddTo(West(b), FScale(Frac(c, w), East(b) - West(b)))

\* main: steep_lat = north - (steep_row / height) * (north - south)
IndexToLat(r, h, b) == FSubFrom(North(b), FScale(Frac(r, h), North(b) - South(b)))

MaxGridRows == 3
MaxGridCols == 24
MaxExtentBits == 1
PointBits == 2

InputBounds ==
    {<<0, 0 - Pow2(i), Pow2(j), 0>> : i \in 0..MaxExtentBits, j \in 0..MaxExtentBits}

\* what the coordinate probe leaves alone
OthersUnchanged ==
    /\ UNCHANGED <<returned, raised, new_height, new_width>>
    /\ UNCHANGED classifyVars
    /\ UNCHANGED slopeVars
    /\ UNCHANGED colorVars
    /\ UNCHANGED demVars

InitCoord ==
    /\ returned = {}
    /\ raised = {}
    /\ pc = "start"
    /\ bounds \in InputBounds
    /\ height \in 1..MaxGridRows
    /\ width \in 1..MaxGridCols
    /\ steep_row = 0
    /\ steep_col = 0
    /\ steep_lat = Frac(0, 1)
    /\ steep_lon = Frac(0, 1)
    /\ lat = Frac(0, 1)
    /\ lon = Frac(0, 1)
    /\ row = 0
    /\ col = 0
    /\ new_height = 0
    /\ new_width = 0
    /\ IdleClassify
    /\ IdleSlope
    /\ IdleColor
    /\ IdleDem

\* main, lines 61-62: get_slope_at_coord at a point inside the bounds, here a
\* point whose coordinates are multiples of 2^-PointBits of the extents
ProbeLandmark ==
    /\ pc = "start"
    /\ \E j \in 0..Pow2(PointBits), k \in 0..Pow2(PointBits) :
          /\ lat' = Frac(South(bounds) * j, Pow2(PointBits))
          /\ lon' = Frac(East(bounds) * k, Pow2(PointBits))
    /\ row' = ProbeRow(height, bounds, lat')
    /\ col' = ProbeCol(width, bounds, lon')
    /\ pc' = "probed"
    /\ UNCHANGED <<bounds, steep_row, steep_col, steep_lat, steep_lon, height, width>>
    /\ OthersUnchanged

\* main, line 84: the index of the steepest cell, any cell of the grid
FindSteepest ==
    /\ pc = "start"
    /\ steep_row' \in 0..(height - 1)
    /\ steep_col' \in 0..(width - 1)
    /\ pc' = "steepest"
    /\ UNCHANGED <<bounds, steep_lat, steep_lon, lat, lon, row, col, height, width>>
    /\ OthersUnchanged

\* main, lines 88-92: the index converted back to a coordinate
ConvertBack ==
    /\ pc = "steepest"
    /\ steep_lon' = IndexToLon(steep_col, width, bounds)
    /\ steep_lat' = IndexToLat(steep_row, height, bounds)
    /\ pc' = "converted"
    /\ UNCHANGED <<bounds, steep_row, steep_col, lat, lon, row, col, height, width>>
    /\ OthersUnchanged

\* get_slope_at_coord at the coordinate of the steepest cell
ProbeSteepest ==
    /\ pc = "converted"
    /\ lat' = steep_lat
    /\ lon' = steep_lon
    /\ row' = ProbeRow(height, bounds, steep_lat)
    /\ col' = ProbeCol(width, bounds, steep_lon)
    /\ pc' = "roundtrip"
    /\ UNCHANGED <<bounds, steep_row, steep_col, steep_lat, steep_lon, height, width>>
    /\ OthersUnchanged

NextCoord == ProbeLandmark \/ FindSteepest \/ ConvertBack \/ ProbeSteepest

SpecCoord == InitCoord /\ [][NextCoord]_vars

(***************************************************************************)
(* dem.py, get_cell_size_meters.  A resolution is a whole number of arc     *)
(* seconds, k / 3600 degrees, and a latitude a whole number of degrees.    *)
(* Numbers are exact fractions n / d in lowest terms; the cosine of a      *)
(* latitude is its value rounded to 1 / CosDen.                            *)
(***************************************************************************)
RECURSIVE Gcd(_, _)
Gcd(a, b) == IF b = 0 THEN a ELSE Gcd(b, a % b)

\* the fraction n / d (d > 0) in lowest terms
Q(n, d) ==
    LET g == Gcd(IF n < 0 THEN 0 - n ELSE n, d)
    IN  [n |-> n \div g, d |-> d \div g]

\* x * y
QMul(x, y) == Q(x.n * y.n, x.d * y.d)

\* x + y and x - y, over the least common denominator
QAdd(x, y) ==
    LET g == Gcd(x.d, y.d)
    IN  Q(x.n * (y.d \div g) + y.n * (x.d \div g), (x.d \div g) * y.d)

QSub(x, y) ==
    LET g == Gcd(x.d, y.d)
    IN  Q(x.n * (y.d \div g) - y.n * (x.d \div g), (x.d \div g) * y.d)

\* x / 2
QHalf(x) == Q(x.n, 2 * x.d)

\* x < y
QLess(x, y) == QSub(y, x).n > 0

meters_per_degree_lat == 111320

\* np.cos(np.radians(latitude)) for a latitude of -89..89 whole degrees:
\* CosTable[d + 1] / CosDen is cos(d degrees) rounded to the nearest 1 / CosDen
CosDen == 10000

CosTable ==
    <<
      10000, 9998, 9994, 9986, 9976, 9962, 9945, 9925, 9903, 9877,
      9848, 9816, 9781, 9744, 9703, 9659, 9613, 9563, 9511, 9455,
      9397, 9336, 9272, 9205, 9135, 9063, 8988, 8910, 8829, 8746,
      8660, 8572, 8480, 8387, 8290, 8192, 8090, 7986, 7880, 7771,
      7660, 7547, 7431, 7314, 7193, 7071, 6947, 6820, 6691, 6561,
      6428, 6293, 6157, 6018, 5878, 5736, 5592, 5446, 5299, 5150,
      5000, 4848, 4695, 4540, 4384, 4226, 4067, 3907, 3746, 3584,
      3420, 3256, 3090, 2924, 2756, 2588, 2419, 2250, 2079, 1908,
      1736, 1564, 1392, 1219, 1045, 872, 698, 523, 349, 175
    >>

Cos(lat_deg) == Q(CosTable[(IF lat_deg < 0 THEN 0 - lat_deg ELSE lat_deg) + 1], CosDen)

get_cell_size_meters_lon_only(resolution, lat_deg) ==
    LET meters_per_degree_lon == QMul(Q(meters_per_degree_lat, 1), Cos(lat_deg))
    IN  QMul(resolution, meters_per_degree_lon)

get_cell_size_meters(resolution, lat_deg) ==
    LET meters_per_degree_lon == QMul(Q(meters_per_degree_lat, 1), Cos(lat_deg))
        cell_size_lat == QMul(resolution, Q(meters_per_degree_lat, 1))
        cell_size_lon == QMul(resolution, meters_per_degree_lon)
    IN  QHalf(QAdd(cell_size_lat, cell_size_lon))

\* the arguments: resolutions of 1..MaxArcSeconds arc seconds, latitudes of
\* -MaxLatitude..MaxLatitude degrees
MaxArcSeconds == 30
MaxLatitude == 88

InitDem ==
    /\ returned = {}
    /\ raised = {}
    /\ pc = "dem"
    /\ \E k \in 1..MaxArcSeconds : resolution_degrees = Q(k, 3600)
    /\ latitude \in (0 - MaxLatitude)..MaxLatitude
    /\ cell_size_meters = Q(0, 1)
    /\ IdleClassify
    /\ IdleColor
    /\ IdleSlope
    /\ IdleResize
    /\ IdleCoord

GetCellSizeMeters ==
    /\ pc = "dem"
    /\ "get_cell_size_meters" \notin returned
    /\ cell_size_meters' = get_cell_size_meters(resolution_degrees, latitude)
    /\ returned' = returned \cup {"get_cell_size_meters"}
    /\ UNCHANGED <<raised, resolution_degrees, latitude>>
    /\ UNCHANGED classifyVars
    /\ UNCHANGED colorVars
    /\ UNCHANGED slopeVars
    /\ UNCHANGED resizeVars
    /\ UNCHANGED coordVars

NextDem == GetCellSizeMeters

SpecDem == InitDem /\ [][NextDem]_vars

Init == InitClassify \/ InitColor \/ InitSlope \/ InitResize \/ InitCoord \/ InitDem

Next == NextClassify \/ NextColor \/ NextSlope \/ NextResize \/ NextCoord \/ NextDem

Spec == Init /\ [][Next]_vars

\* C1: classify_slope gives every slope that is not no-data its category by the
\* ordered thresholds, each boundary value belonging to the higher category:
\* s < 25 low, 25 <= s < 30 moderate, 30 <= s < 45 high, 45 <= s < 60
\* very_high, s >= 60 extreme.
C1_Thresholds ==
    "classify_slope" \in returned =>
        \A i \in 1..Len(slopes.data) :
            LET v == slopes.data[i].v
                c == categories.data[i]
            IN  ~slopes.data[i].nan =>
                    /\ (v < 25 * PerDegree) => c = "low"
                    /\ (25 * PerDegree <= v /\ v < 30 * PerDegree) => c = "moderate"
                    /\ (30 * PerDegree <= v /\ v < 45 * PerDegree) => c = "high"
                    /\ (45 * PerDegree <= v /\ v < 60 * PerDegree) => c = "very_high"
                    /\ (60 * PerDegree <= v) => c = "extreme"

\* a classified array that holds 24.99 and 25.00 side by side
C1_Witness ==
    /\ "classify_slope" \in returned
    /\ \E i, j \in 1..Len(slopes.data) :
          /\ slopes.data[i] = Num(25 * PerDegree - 1) /\ categories.data[i] = "low"
          /\ slopes.data[j] = Num(25 * PerDegree) /\ categories.data[j] = "moderate"

\* s lies in the interval the table gives category c: [min, max), and
\* [min, max] for the last category
InInterval(c, v) ==
    /\ RISK_CATEGORIES[c].min * PerDegree <= v
    /\ IF c = "extreme" THEN v <= RISK_CATEGORIES[c].max * PerDegree
                        ELSE v < RISK_CATEGORIES[c].max * PerDegree

\* C2: the five intervals of RISK_CATEGORIES partition [0, 90] without gap or
\* overlap, each with min < max, and for every slope in [0, 90] the one
\* category whose interval holds it is the one classify_slope returns.
C2_Partition ==
    /\ \A c \in RiskLabels : RISK_CATEGORIES[c].min < RISK_CATEGORIES[c].max
    /\ RISK_CATEGORIES["low"].min = 0 /\ RISK_CATEGORIES["extreme"].max = 90
    /\ RISK_CATEGORIES["low"].max = RISK_CATEGORIES["moderate"].min
    /\ RISK_CATEGORIES["moderate"].max = RISK_CATEGORIES["high"].min
    /\ RISK_CATEGORIES["high"].max = RISK_CATEGORIES["very_high"].min
    /\ RISK_CATEGORIES["very_high"].max = RISK_CATEGORIES["extreme"].min
    /\ "classify_slope" \in returned =>
          \A i \in 1..Len(slopes.data) :
              LET v == slopes.data[i].v
              IN  (~slopes.data[i].nan /\ 0 <= v /\ v <= 90 * PerDegree) =>
                      {c \in RiskLabels : InInterval(c, v)} = {categories.data[i]}

\* a classified slope of exactly 90 degrees, the closed end of the last interval
C2_Witness ==
    /\ "classify_slope" \in returned
    /\ slopes.data[1] = Num(90 * PerDegree)
    /\ categories.data[1] = "extreme"

\* C3: a no-data slope given to classify_slope never gets one of the five
\* risk labels.
C3_NoDataUndefined ==
    "classify_slope" \in returned =>
        \A i \in 1..Len(slopes.data) :
            slopes.data[i].nan => categories.data[i] \notin RiskLabels

\* C4: in the image of slope_to_rgba a no-data cell is the pixel (0,0,0,0) and
\* every other cell has alpha 150: transparent if and only if no-data.
C4_Transparent ==
    "slope_to_rgba" \in returned =>
        \A i \in 1..Len(slopes.data) :
            /\ slopes.data[i].nan => rgba.data[i] = <<0, 0, 0, 0>>
            /\ ~slopes.data[i].nan => rgba.data[i][4] = 150

\* an image with a no-data cell next to a measured one
C4_Witness ==
    /\ "slope_to_rgba" \in returned
    /\ \E i, j \in 1..Len(slopes.data) :
          /\ slopes.data[i].nan /\ rgba.data[i][4] = 0
          /\ ~slopes.data[j].nan /\ rgba.data[j][4] = 150

\* C5: every no-data cell of the elevation grid has a no-data slope in the
\* output of calculate_slope, wherever it lies in the grid.
C5_NoDataCell ==
    "calculate_slope" \in returned =>
        \A i \in 1..Len(elevation.data) :
            elevation.data[i].nan => slope_degrees.data[i].nan

\* the indices along one axis of length n that the difference at index k reads
SamplesRead(n, k) ==
    IF k = 1 THEN {1, 2}
    ELSE IF k = n THEN {n - 1, n}
    ELSE {k - 1, k + 1}

\* C6: a cell has a no-data slope whenever one of the elevation samples its
\* row-wise or column-wise difference reads is no-data.
C6_TouchedNoData ==
    "calculate_slope" \in returned =>
        \A r \in 1..elevation.shape[1], c \in 1..elevation.shape[2] :
            (\/ \E rr \in SamplesRead(elevation.shape[1], r) : At(elevation, rr, c).nan
             \/ \E cc \in SamplesRead(elevation.shape[2], c) : At(elevation, r, cc).nan)
            => At(slope_degrees, r, c).nan

\* an interior cell with a measured elevation whose northern neighbour is
\* no-data
C6_Witness ==
    /\ "calculate_slope" \in returned
    /\ \E r \in 2..(elevation.shape[1] - 1), c \in 2..(elevation.shape[2] - 1) :
          /\ ~At(elevation, r, c).nan
          /\ At(elevation, r - 1, c).nan
          /\ At(slope_degrees, r, c).nan

\* C10: calculate_slope raises and returns no grid whenever the elevation grid
\* has fewer than 2 rows or fewer than 2 columns, and does not raise for a
\* grid of at least 2x2.
C10_ShapeError ==
    "calculate_slope" \in (returned \cup raised) =>
        /\ ("calculate_slope" \in raised)
              <=> (elevation.shape[1] < 2 \/ elevation.shape[2] < 2)
        /\ "calculate_slope" \in raised => slope_degrees = NoResult
        /\ "calculate_slope" \in returned => slope_degrees.shape = elevation.shape

\* a grid of one row and several columns, refused
C10_Witness ==
    /\ "calculate_slope" \in raised
    /\ elevation.shape[1] = 1
    /\ elevation.shape[2] >= 2

\* the downsampling branch of create_slope_map has run
Downsampled ==
    /\ "create_slope_map" \in (returned \cup raised)
    /\ Max(height, width) > max_dimension

\* C7: for every grid of at least 1x1 whose larger side exceeds 1500 the new
\* height and the new width are both at least 1 and at most 1500, and the
\* resize does not fail.
C7_NewDimsInRange ==
    Downsampled =>
        /\ 1 <= new_height /\ new_height <= 1500
        /\ 1 <= new_width /\ new_width <= 1500
        /\ "create_slope_map" \notin raised

\* C8 as claimed: the downsampled sides keep the aspect ratio,
\* new_height / new_width = height / width, here within a relative
\* tolerance as wide as one part in a thousand and only where both new
\* sides are at least 1, so that the ratio exists.
C8_AspectRatioKept ==
    (Downsampled /\ new_height >= 1 /\ new_width >= 1) =>
        LET cross == new_height * width - new_width * height
            abs == IF cross < 0 THEN 0 - cross ELSE cross
        IN  abs <= (new_width * height) \div 1000

\* C8 as amended: each new side is the scaled side truncated to an integer,
\* at most one pixel below side * 1500 / max(height, width) and never above
\* it, so the ratio is kept up to that truncation:
\* |new_height * width - new_width * height| <= max(height, width).
C8_WithinOnePixel ==
    Downsampled =>
        LET m == Max(height, width)
            cross == new_height * width - new_width * height
        IN  /\ new_height * m <= height * max_dimension
            /\ height * max_dimension <= (new_height + 1) * m
            /\ new_width * m <= width * max_dimension
            /\ width * max_dimension <= (new_width + 1) * m
            /\ cross <= m /\ 0 - cross <= m

\* a downsampled grid whose ratio changed, the shorter side having lost a
\* whole pixel to the rounding of scale (531 x 1593 becomes 499 x 1500)
C8_Witness ==
    /\ Downsampled
    /\ new_height * width # new_width * height
    /\ (Min(new_height, new_width) + 1) * Max(height, width)
          = Min(height, width) * max_dimension

\* C9: mapping a valid index to its coordinate and back through
\* get_slope_at_coord returns the same (row, col), and a point inside the
\* bounds maps to the cell whose painted area, anchored at
\* [[south, west], [north, east]] with row 0 at the north, contains it.
C9_RoundTrip ==
    /\ pc = "roundtrip" => (row = steep_row /\ col = steep_col)
    /\ pc = "probed" =>
          LET ew == East(bounds) - West(bounds)
              ns == North(bounds) - South(bounds)
          IN  /\ (West(bounds) * width + col * ew) * lon.d <= lon.n * width
              /\ lon.n * width <= (West(bounds) * width + (col + 1) * ew) * lon.d
              /\ (North(bounds) * height - (row + 1) * ns) * lat.d <= lat.n * height
              /\ lat.n * height <= (North(bounds) * height - row * ns) * lat.d

\* C11: get_risk_color ends in an error for every label outside the set
\* {low, moderate, high, very_high, extreme} and returns no colour for it,
\* and it does not fail for a label of the set.
C11_UnknownLabelFails ==
    "get_risk_color" \in (returned \cup raised) =>
        /\ ("get_risk_color" \in raised)
              <=> (category \notin {"low", "moderate", "high", "very_high", "extreme"})
        /\ "get_risk_color" \in raised => risk_color = <<>>

\* a call with the label "no_data", which the table does not hold, has failed
C11_Witness ==
    /\ "get_risk_color" \in raised
    /\ category = "no_data"
    /\ risk_color = <<>>

\* the elevation grid is the plane a * row + b * col + c, without no-data
Planar(a, b) ==
    \A r \in 1..elevation.shape[1], k \in 1..elevation.shape[2] :
        /\ ~At(elevation, r, k).nan
        /\ At(elevation, r, k).v = At(elevation, 1, 1).v + a * (r - 1) + b * (k - 1)

\* the cells that have a neighbour on every side
Interior ==
    {<<r, k>> : r \in 2..(elevation.shape[1] - 1), k \in 2..(elevation.shape[2] - 1)}

\* C12: on a planar elevation grid a * row + b * col + c calculate_slope
\* gives every interior cell the angle whose tangent is
\* sqrt(a^2 + b^2) / cell_size, that is a squared tangent of
\* (a^2 + b^2) / cell_size^2: 0 degrees at every cell of a constant grid,
\* 45 degrees (squared tangent 1) for a rise of one cell size per step along
\* one axis, atan(2) (squared tangent 4) for a rise of two cell sizes per
\* step, and 45 degrees whenever a^2 + b^2 = cell_size^2.
C12_PlanarSlope ==
    "calculate_slope" \in returned =>
        \A a \in (0 - MaxCoef)..MaxCoef, b \in (0 - MaxCoef)..MaxCoef :
            Planar(a, b) =>
                /\ \A p \in Interior :
                      LET s == At(slope_degrees, p[1], p[2])
                      IN  /\ ~s.nan
                          /\ s.tan2d > 0
                          /\ s.tan2n * cell_size * cell_size = (a * a + b * b) * s.tan2d
                          /\ (a * a + b * b = cell_size * cell_size) => s.tan2n = s.tan2d
                          /\ (a * a + b * b = 4 * cell_size * cell_size)
                                => s.tan2n = 4 * s.tan2d
                /\ (a = 0 /\ b = 0) =>
                      \A i \in 1..Len(slope_degrees.data) :
                          ~slope_degrees.data[i].nan /\ slope_degrees.data[i].tan2n = 0

\* a plane that rises two cell sizes per row and nothing per column, whose
\* interior cell got the squared tangent 4
C12_Witness ==
    /\ "calculate_slope" \in returned
    /\ Planar(2 * cell_size, 0)
    /\ Interior # {}
    /\ \A p \in Interior :
          At(slope_degrees, p[1], p[2]).tan2n = 4 * At(slope_degrees, p[1], p[2]).tan2d

\* C13: on an elevation grid without no-data every slope calculate_slope
\* returns is a number from 0 to 90 degrees: the arctangent of the square
\* root of a finite squared tangent that is not negative, an angle in [0, 90).
C13_SlopeRange ==
    ("calculate_slope" \in returned
        /\ \A i \in 1..Len(elevation.data) : ~elevation.data[i].nan) =>
        \A i \in 1..Len(slope_degrees.data) :
            /\ ~slope_degrees.data[i].nan
            /\ slope_degrees.data[i].tan2d > 0
            /\ slope_degrees.data[i].tan2n >= 0

\* a grid without no-data that descends along a row and holds a spike: a
\* cell with a negative gradient and a cell steeper than 45 degrees
C13_Witness ==
    /\ "calculate_slope" \in returned
    /\ \A i \in 1..Len(elevation.data) : ~elevation.data[i].nan
    /\ At(elevation, 1, 2).v < At(elevation, 1, 1).v
    /\ \E i \in 1..Len(slope_degrees.data) :
          slope_degrees.data[i].tan2n > slope_degrees.data[i].tan2d

\* C14: for a resolution r > 0 and a latitude between -90 and 90 degrees
\* get_cell_size_meters returns r * 111320 * (1 + cos(latitude)) / 2; the
\* result is positive, grows strictly with r at a fixed latitude, equals
\* r * 111320 at latitude 0 and exceeds half of r * 111320.
C14_MeanCellSize ==
    "get_cell_size_meters" \in returned =>
        LET full == QMul(resolution_degrees, Q(111320, 1))
        IN  /\ cell_size_meters = QMul(full, QHalf(QAdd(Q(1, 1), Cos(latitude))))
            /\ cell_size_meters.n > 0 /\ cell_size_meters.d > 0
            /\ \A k \in 1..MaxArcSeconds :
                  QLess(resolution_degrees, Q(k, 3600)) =>
                      QLess(cell_size_meters, get_cell_size_meters(Q(k, 3600), latitude))
            /\ latitude = 0 => cell_size_meters = full
            /\ QLess(QHalf(full), cell_size_meters)

\* 3 arc seconds at latitude 57: a cell size between 50 and 90 metres, below
\* the 92.77 metres of the equator
C14_Witness ==
    /\ "get_cell_size_meters" \in returned
    /\ resolution_degrees = Q(1, 1200)
    /\ latitude = 57
    /\ 50 * cell_size_meters.d < cell_size_meters.n
    /\ cell_size_meters.n < 90 * cell_size_meters.d

\* C15: get_risk_color returns the RGBA literal of each of the five
\* categories, low (0,255,0,150), moderate (255,255,0,150), high
\* (255,165,0,150), very_high (255,0,0,150), extreme (128,0,128,150), and
\* the table holds exactly these five categories.
C15_FixedColors ==
    /\ DOMAIN RISK_CATEGORIES = {"low", "moderate", "high", "very_high", "extreme"}
    /\ "get_risk_color" \in returned =>
          /\ category = "low" => risk_color = <<0, 255, 0, 150>>
          /\ category = "moderate" => risk_color = <<255, 255, 0, 150>>
          /\ category = "high" => risk_color = <<255, 165, 0, 150>>
          /\ category = "very_high" => risk_color = <<255, 0, 0, 150>>
          /\ category = "extreme" => risk_color = <<128, 0, 128, 150>>

\* the colour of "high" has been looked up and is orange
C15_Witness ==
    /\ "get_risk_color" \in returned
    /\ category = "high"
    /\ risk_color = <<255, 165, 0, 150>>

\* C16: every stage keeps the shape of the grid: calculate_slope on an
\* elevation grid of h >= 2 rows and w >= 2 columns returns h x w slopes,
\* classify_slope on a 2D slope grid returns h x w labels, and slope_to_rgba
\* returns h x w pixels of 4 channels.
C16_ShapeKept ==
    /\ ("calculate_slope" \in (returned \cup raised)
           /\ elevation.shape[1] >= 2 /\ elevation.shape[2] >= 2) =>
          /\ "calculate_slope" \in returned
          /\ slope_degrees.shape = elevation.shape
          /\ Len(slope_degrees.data) = elevation.shape[1] * elevation.shape[2]
    /\ ("classify_slope" \in returned /\ Len(slopes.shape) = 2) =>
          /\ categories.shape = slopes.shape
          /\ Len(categories.data) = slopes.shape[1] * slopes.shape[2]
    /\ "slope_to_rgba" \in returned =>
          /\ rgba.shape = <<slopes.shape[1], slopes.shape[2], 4>>
          /\ Len(rgba.data) = slopes.shape[1] * slopes.shape[2]
          /\ \A i \in 1..Len(rgba.data) : Len(rgba.data[i]) = 4

\* a 2 x 2 slope grid that has been classified and painted
C16_Witness ==
    /\ {"classify_slope", "slope_to_rgba"} \subseteq returned
    /\ slopes.shape = <<2, 2>>
    /\ categories.shape = <<2, 2>>
    /\ rgba.shape = <<2, 2, 4>>

\* C17: the pixel slope_to_rgba paints for a cell is get_risk_color of the
\* category classify_slope gives that cell, for every slope value, no-data,
\* negative values and values above 90 included.
C17_PaintAgrees ==
    ("slope_to_rgba" \in returned /\ "get_risk_color" \in (returned \cup raised) /\ cell # 0) =>
        /\ "get_risk_color" \in returned
        /\ category = categories.data[cell]
        /\ rgba.data[cell] = risk_color

====
